---------------------------- MODULE Spec2Model ----------------------------
(***************************************************************************)
(* A model of npm_rs (src/src/lib.rs): the NpmEnv environment configurator *)
(* and the Npm command builder, both thin layers over                      *)
(* std::process::Command.                                                  *)
(*                                                                         *)
(* Strings that the crate assembles (fragments, the joined command line,   *)
(* the shell's arguments) are sequences of one-character strings, so that  *)
(* join(" ") and join(" && ") are modelled by what they do.  Strings the   *)
(* crate only passes through (program name, directories, environment keys  *)
(* and values) are atomic TLA+ strings.  An Option<T> is a sequence of     *)
(* length 0 (None) or 1 (Some).                                            *)
(***************************************************************************)
EXTENDS Naturals, Sequences, FiniteSets, TLC

VARIABLES
    platform,         \* target_family the crate was compiled for (cfg_if, lib.rs:48-56)
    inherited,        \* the environment of the calling process
    stage,            \* "env" (NpmEnv), "npm" (Npm), "running" (in exec), "done"
    cmd,              \* the Command held by NpmEnv.0 / Npm.cmd
    args,             \* Npm.args : Vec<String>
    clone,            \* Option<NpmEnv>: the latest value returned by NpmEnv::clone
    child,            \* the process spawned by Command::status
    result,           \* what exec returned
    spawned,          \* number of child processes spawned so far
    attempts,         \* number of times exec asked the OS to launch the shell
    calls,            \* history: the builder calls made so far, with their inputs
    afterClear,       \* history: environment operations since the last clear_envs
    removedAfterSet,  \* history: keys written and then removed, not written since
    lastCall,         \* history: the last operation called
    nops              \* history: number of operations called so far

vars == << platform, inherited, stage, cmd, args, clone, child, result, spawned,
           attempts, calls, afterClear, removedAfterSet, lastCall, nops >>

---------------------------------------------------------------------------
(* Bounds of the model *)

MaxCalls == 4         \* configuration and append calls per run (EnvSpec)
MaxFrags == 2         \* append calls per run (Spec)
MaxPkgs == 2          \* length of a package / argument list
MaxPairs == 2         \* length of the list given to with_envs

---------------------------------------------------------------------------
(* Character strings *)

SP == <<" ">>
AND_SEP == <<" ", "&", "&", " ">>

NPM == <<"n", "p", "m">>
NPM_INIT == <<"i", "n", "i", "t">>
NPM_INSTALL == <<"i", "n", "s", "t", "a", "l", "l">>
NPM_UNINSTALL == <<"u", "n", "i", "n", "s", "t", "a", "l", "l">>
NPM_UPDATE == <<"u", "p", "d", "a", "t", "e">>
NPM_RUN == <<"r", "u", "n">>
YES_FLAG == <<"-", "y">>

NODE_ENV == "NODE_ENV"

CMD(p) == IF p = "windows" THEN "cmd.exe" ELSE "bash"
OPT(p) == IF p = "windows" THEN <<"/", "C">> ELSE <<"-", "c">>

---------------------------------------------------------------------------
(* Inputs *)

Platforms == {"windows", "unix"}
CurrentDir == "/project"
Paths == {"web"}

\* Package names, script names and arguments a caller passes.  "||" is a
\* name that is also a control operator of both shells.
Names == { <<"a">>, <<"|", "|">> }
PlainNames == { <<"a">> }
CustomCmds == { <<"c", "i">> }

RECURSIVE ListsUpTo(_, _)
ListsUpTo(S, n) ==
    IF n = 0 THEN { <<>> }
    ELSE LET shorter == ListsUpTo(S, n - 1)
         IN  shorter \cup { Append(l, x) : l \in { m \in shorter : Len(m) = n - 1 }, x \in S }

None == <<>>
Some(x) == <<x>>
IsSome(o) == Len(o) = 1
Options(S) == { None } \cup { Some(x) : x \in S }

EnvKeys == { NODE_ENV, "FOO" }
EnvVals == { "bar" }
CustomNodeEnvs == { "staging" }
NodeEnvs == { [tag |-> "Development", c |-> ""], [tag |-> "Production", c |-> ""] }
            \cup { [tag |-> "Custom", c |-> s] : s \in CustomNodeEnvs }

EmptyMap == [k \in {} |-> ""]
InheritedEnvs == { EmptyMap, [k \in {"FOO", "PATH"} |-> IF k = "FOO" THEN "old" ELSE "/bin"] }

---------------------------------------------------------------------------
(* std::process::Command, as far as the crate uses it *)

Put(m, k, v) == [x \in DOMAIN m \cup {k} |-> IF x = k THEN v ELSE m[x]]
Del(m, k) == [x \in DOMAIN m \ {k} |-> m[x]]

Command_new(program) ==
    [program |-> program, args |-> <<>>, cwd |-> None,
     env_clear |-> FALSE, env_vars |-> EmptyMap]

Command_arg(c, a) == [c EXCEPT !.args = Append(@, a)]

Command_args(c, as) == [c EXCEPT !.args = @ \o as]

Command_current_dir(c, dir) == [c EXCEPT !.cwd = Some(dir)]

Command_env(c, key, val) == [c EXCEPT !.env_vars = Put(@, key, Some(val))]

RECURSIVE Command_envs(_, _)
Command_envs(c, pairs) ==
    IF pairs = <<>> THEN c
    ELSE Command_envs(Command_env(c, pairs[1][1], pairs[1][2]), Tail(pairs))

Command_env_clear(c) == [c EXCEPT !.env_clear = TRUE, !.env_vars = EmptyMap]

Command_env_remove(c, key) ==
    IF c.env_clear
    THEN [c EXCEPT !.env_vars = Del(@, key)]
    ELSE [c EXCEPT !.env_vars = Put(@, key, None)]

\* The environment the child receives: the inherited one unless cleared,
\* then every explicit mapping applied (Some: set, None: removed).
Command_capture_env(c, inh) ==
    LET base == IF c.env_clear THEN EmptyMap ELSE inh
        keep == (DOMAIN base \ { k \in DOMAIN c.env_vars : c.env_vars[k] = None })
                \cup { k \in DOMAIN c.env_vars : IsSome(c.env_vars[k]) }
    IN  [k \in keep |-> IF k \in DOMAIN c.env_vars THEN c.env_vars[k][1] ELSE base[k]]

---------------------------------------------------------------------------
(* Pure functions of the crate *)

\* [String]::join(sep)
RECURSIVE Join(_, _)
Join(strs, sep) ==
    IF strs = <<>> THEN <<>>
    ELSE IF Len(strs) = 1 THEN strs[1]
    ELSE strs[1] \o sep \o Join(Tail(strs), sep)

NodeEnvValue(node_env) ==
    CASE node_env.tag = "Development" -> "development"
      [] node_env.tag = "Production" -> "production"
      [] OTHER -> node_env.c

NpmEnv_default_cmd(p, dir) ==
    Command_current_dir(Command_arg(Command_new(CMD(p)), OPT(p)), dir)

NpmEnv_clone_cmd(c) ==
    Command_current_dir(Command_args(Command_new(c.program), c.args), c.cwd[1])

npm_append(a, npm_cmd, chain) == Append(a, Join(<<NPM, npm_cmd>> \o chain, SP))

unwrap_or_default(o) == IF IsSome(o) THEN o[1] ELSE <<>>

init_args(a) == npm_append(a, NPM_INIT, <<YES_FLAG>>)
\* install written as format!("npm install {}", names.join(" "))
install_args_fmt(a, o) == Append(a, NPM \o SP \o NPM_INSTALL \o SP \o Join(unwrap_or_default(o), SP))

install_args(a, o) == npm_append(a, NPM_INSTALL, unwrap_or_default(o))
uninstall_args(a, pkg) == npm_append(a, NPM_UNINSTALL, pkg)
update_args(a, o) == npm_append(a, NPM_UPDATE, unwrap_or_default(o))
run_args(a, command) == Append(a, Join(<<NPM, NPM_RUN, command>>, SP))
custom_args(a, command, o) == npm_append(a, command, unwrap_or_default(o))

\* exec with the fragments joined by "&&" without the spaces around it
exec_cmd_tight(c, a) == Command_arg(c, Join(a, <<"&", "&">>))

\* exec that adds no argument when there is no fragment
exec_cmd_skip_empty(c, a) == IF a = <<>> THEN c ELSE Command_arg(c, Join(a, AND_SEP))

exec_cmd(c, a) == Command_arg(c, Join(a, AND_SEP))


\* The crate's configuration methods, applied to the wrapped Command
with_env(c, key, val) == Command_env(c, key, val)
with_node_env(c, node_env) == with_env(c, NODE_ENV, NodeEnvValue(node_env))
with_envs(c, pairs) == Command_envs(c, pairs)
\* clear_envs that forgets the explicit mappings but keeps inheriting
clear_envs_keep_inherited(c) == [c EXCEPT !.env_vars = EmptyMap]

clear_envs(c) == Command_env_clear(c)

\* remove_env that only forgets the explicit mapping of the key
remove_env_forget(c, key) == [c EXCEPT !.env_vars = Del(@, key)]

remove_env(c, key) == Command_env_remove(c, key)
set_path(c, path) == Command_current_dir(c, path)

---------------------------------------------------------------------------
(* The child: `<shell> <flag> <command line>`.  The command line is split  *)
(* into words at spaces; the words && and || are the shell's control       *)
(* operators, every other run of words is one simple command.  The shell   *)
(* goes through the list one simple command at a time; a command that is   *)
(* run succeeds (status 0) or fails, and the i-th command of the list      *)
(* exits with status i when it fails, which tells the failures apart.      *)

SyntaxErrorStatus == 2

RECURSIVE WordsFrom(_, _, _)
WordsFrom(s, cur, acc) ==
    LET flushed == IF cur = <<>> THEN acc ELSE Append(acc, cur)
    IN  IF s = <<>> THEN flushed
        ELSE IF Head(s) = " " THEN WordsFrom(Tail(s), <<>>, flushed)
        ELSE WordsFrom(Tail(s), Append(cur, Head(s)), acc)

Words(s) == WordsFrom(s, <<>>, <<>>)

IsOperator(w) == w = <<"&", "&">> \/ w = <<"|", "|">>

\* The and-or list: << [op, words], ... >>, the first with op "first"
RECURSIVE SegmentsFrom(_, _, _)
SegmentsFrom(ws, cur, acc) ==
    IF ws = <<>> THEN Append(acc, cur)
    ELSE IF IsOperator(Head(ws))
         THEN SegmentsFrom(Tail(ws), [op |-> Head(ws), words |-> <<>>], Append(acc, cur))
         ELSE SegmentsFrom(Tail(ws), [cur EXCEPT !.words = Append(@, Head(ws))], acc)

Segments(line) == SegmentsFrom(Words(line), [op |-> <<>>, words |-> <<>>], <<>>)

\* What the shell makes of its command line before it runs anything
Parse(line) == IF Words(line) = <<>> THEN <<>> ELSE Segments(line)

\* A list with an operator that lacks an operand is rejected whole.
WellFormed(list) == \A i \in 1..Len(list) : list[i].words # <<>>

\* Whether the i-th simple command of the list is run, given the status so far
Runs(list, i, status) ==
    \/ i = 1
    \/ list[i].op = <<"&", "&">> /\ status = 0
    \/ list[i].op = <<"|", "|">> /\ status # 0

---------------------------------------------------------------------------
(* State *)

NoChild ==
    [state |-> "none", program |-> "", argv |-> <<>>, cwd |-> None,
     env |-> EmptyMap, list |-> <<>>, next |-> 0, ran |-> <<>>, failed |-> {},
     status |-> 0]

NoResult == [kind |-> "none", code |-> 0]
Ok(code) == [kind |-> "ok", code |-> code]
Err == [kind |-> "err", code |-> 0]

AllKeys == EnvKeys \cup {"PATH"}

InitCommon ==
    /\ platform \in Platforms
    /\ inherited \in InheritedEnvs
    /\ cmd = NpmEnv_default_cmd(platform, CurrentDir)
    /\ args = <<>>
    /\ clone = None
    /\ child = NoChild
    /\ result = NoResult
    /\ spawned = 0
    /\ attempts = 0
    /\ calls = <<>>
    /\ afterClear = [cleared |-> FALSE, ops |-> <<>>]
    /\ removedAfterSet = [k \in AllKeys |-> "untouched"]
    /\ lastCall = [op |-> "default", key |-> ""]
    /\ nops = 0

\* NpmEnv::default()
EnvInit == InitCommon /\ stage = "env"

\* Npm::default() == NpmEnv::default().init_env(), in a process that has
\* an environment of its own
Init == InitCommon /\ stage = "npm" /\ inherited # EmptyMap

---------------------------------------------------------------------------
(* History bookkeeping *)

\* A configuration or append call
Called(op, key) ==
    /\ lastCall' = [op |-> op, key |-> key]
    /\ nops' = nops + 1

\* init_env or exec
Finished(op) ==
    /\ lastCall' = [op |-> op, key |-> ""]
    /\ UNCHANGED nops

SetEntries(pairs) == [i \in 1..Len(pairs) |-> [op |-> "set", key |-> pairs[i][1], val |-> pairs[i][2]]]

\* Only "none, one, or more than one" operation since the clear is kept.
LogAfterClear(entries) ==
    afterClear' =
        IF afterClear.cleared
        THEN [afterClear EXCEPT !.ops = SubSeq(@ \o entries, 1, IF Len(@ \o entries) > 1 THEN 2 ELSE Len(@ \o entries))]
        ELSE afterClear

RECURSIVE KeysWritten(_)
KeysWritten(pairs) == IF pairs = <<>> THEN {} ELSE {pairs[1][1]} \cup KeysWritten(Tail(pairs))

LogWritten(keys) ==
    removedAfterSet' = [k \in AllKeys |-> IF k \in keys THEN "set" ELSE removedAfterSet[k]]

BuilderUnchanged == UNCHANGED << args, child, result, spawned, attempts, calls >>
FixedUnchanged == UNCHANGED << platform, inherited >>

---------------------------------------------------------------------------
(* NpmEnv *)

NpmEnv_with_node_env ==
    /\ stage = "env" /\ nops < MaxCalls
    /\ \E node_env \in NodeEnvs :
          /\ cmd' = with_node_env(cmd, node_env)
          /\ LogAfterClear(SetEntries(<< <<NODE_ENV, NodeEnvValue(node_env)>> >>))
    /\ LogWritten({NODE_ENV})
    /\ Called("with_node_env", NODE_ENV)
    /\ BuilderUnchanged /\ FixedUnchanged /\ UNCHANGED << stage, clone >>

NpmEnv_with_env ==
    /\ stage = "env" /\ nops < MaxCalls
    /\ \E key \in EnvKeys, val \in EnvVals :
          /\ cmd' = with_env(cmd, key, val)
          /\ LogAfterClear(SetEntries(<< <<key, val>> >>))
          /\ LogWritten({key})
          /\ Called("with_env", key)
    /\ BuilderUnchanged /\ FixedUnchanged /\ UNCHANGED << stage, clone >>

EnvPairs == { <<"FOO", "bar">>, <<"FOO", "baz">> }

NpmEnv_with_envs ==
    /\ stage = "env" /\ nops < MaxCalls
    /\ \E pairs \in ListsUpTo(EnvPairs, MaxPairs) :
          /\ cmd' = with_envs(cmd, pairs)
          /\ LogAfterClear(SetEntries(pairs))
          /\ LogWritten(KeysWritten(pairs))
    /\ Called("with_envs", "")
    /\ BuilderUnchanged /\ FixedUnchanged /\ UNCHANGED << stage, clone >>

NpmEnv_clear_envs ==
    /\ stage = "env" /\ nops < MaxCalls
    /\ cmd' = clear_envs(cmd)
    /\ afterClear' = [cleared |-> TRUE, ops |-> <<>>]
    /\ Called("clear_envs", "")
    /\ BuilderUnchanged /\ FixedUnchanged /\ UNCHANGED << stage, clone, removedAfterSet >>

NpmEnv_remove_env ==
    /\ stage = "env" /\ nops < MaxCalls
    /\ \E key \in EnvKeys :
          /\ cmd' = remove_env(cmd, key)
          /\ LogAfterClear(<< [op |-> "remove", key |-> key, val |-> ""] >>)
          /\ removedAfterSet' =
                [removedAfterSet EXCEPT ![key] = IF @ = "set" THEN "removed" ELSE @]
          /\ Called("remove_env", key)
    /\ BuilderUnchanged /\ FixedUnchanged /\ UNCHANGED << stage, clone >>

NpmEnv_set_path ==
    /\ stage = "env" /\ nops < MaxCalls
    /\ \E path \in Paths : cmd' = set_path(cmd, path)
    /\ Called("set_path", "")
    /\ BuilderUnchanged /\ FixedUnchanged
    /\ UNCHANGED << stage, clone, afterClear, removedAfterSet >>

NpmEnv_clone ==
    /\ stage = "env" /\ nops < MaxCalls
    /\ clone' = Some(NpmEnv_clone_cmd(cmd))
    /\ Called("clone", "")
    /\ BuilderUnchanged /\ FixedUnchanged
    /\ UNCHANGED << stage, cmd, afterClear, removedAfterSet >>

\* init_env that builds the Npm from a fresh Command, as clone does
init_env_npm_fresh(c) == [cmd |-> NpmEnv_clone_cmd(c), args |-> <<>>]

init_env_npm(c) == [cmd |-> c, args |-> <<>>]

NpmEnv_init_env ==
    /\ stage = "env"
    /\ cmd' = init_env_npm(cmd).cmd
    /\ args' = init_env_npm(cmd).args
    /\ stage' = "npm"
    /\ Finished("init_env")
    /\ FixedUnchanged
    /\ UNCHANGED << clone, child, result, spawned, attempts, calls, afterClear, removedAfterSet >>

---------------------------------------------------------------------------
(* Npm *)

EnvUnchanged == UNCHANGED << clone, afterClear, removedAfterSet >>
AppendFrame == UNCHANGED << stage, cmd, child, result, spawned, attempts >>

Call(op, command, pkgs) == [op |-> op, command |-> command, pkgs |-> pkgs]

Npm_init(bound) ==
    /\ stage = "npm" /\ nops < bound
    /\ args' = init_args(args)
    /\ calls' = Append(calls, Call("init", <<>>, None))
    /\ Called("init", "")
    /\ AppendFrame /\ EnvUnchanged /\ FixedUnchanged

Npm_install(opts, bound) ==
    /\ stage = "npm" /\ nops < bound
    /\ \E o \in opts :
          /\ args' = install_args(args, o)
          /\ calls' = Append(calls, Call("install", <<>>, o))
    /\ Called("install", "")
    /\ AppendFrame /\ EnvUnchanged /\ FixedUnchanged

Npm_uninstall(lists, bound) ==
    /\ stage = "npm" /\ nops < bound
    /\ \E pkg \in lists :
          /\ args' = uninstall_args(args, pkg)
          /\ calls' = Append(calls, Call("uninstall", <<>>, Some(pkg)))
    /\ Called("uninstall", "")
    /\ AppendFrame /\ EnvUnchanged /\ FixedUnchanged

Npm_update(opts, bound) ==
    /\ stage = "npm" /\ nops < bound
    /\ \E o \in opts :
          /\ args' = update_args(args, o)
          /\ calls' = Append(calls, Call("update", <<>>, o))
    /\ Called("update", "")
    /\ AppendFrame /\ EnvUnchanged /\ FixedUnchanged

Npm_run(names, bound) ==
    /\ stage = "npm" /\ nops < bound
    /\ \E command \in names :
          /\ args' = run_args(args, command)
          /\ calls' = Append(calls, Call("run", command, None))
    /\ Called("run", "")
    /\ AppendFrame /\ EnvUnchanged /\ FixedUnchanged

Npm_custom(opts, bound) ==
    /\ stage = "npm" /\ nops < bound
    /\ \E command \in CustomCmds, o \in opts :
          /\ args' = custom_args(args, command, o)
          /\ calls' = Append(calls, Call("custom", command, o))
    /\ Called("custom", "")
    /\ AppendFrame /\ EnvUnchanged /\ FixedUnchanged

\* Command::status, first half: the OS is asked once to launch the shell.
spawn_child(c, inh) ==
    [state |-> "running", program |-> c.program, argv |-> c.args, cwd |-> c.cwd,
     env |-> Command_capture_env(c, inh), list |-> Parse(c.args[Len(c.args)]),
     next |-> 1, ran |-> <<>>, failed |-> {}, status |-> 0]

\* Command::status, second half: wait() returns once the child has terminated.
\* exec that returns without waiting for the child
wait_returns_at_once(ch) == TRUE

wait_returns(ch) == ch.state = "exited"

\* exec that turns a non-zero exit status into an error
exec_result_strict(launched, ch) == IF launched /\ ch.status = 0 THEN Ok(ch.status) ELSE Err

exec_result(launched, ch) == IF launched THEN Ok(ch.status) ELSE Err

Npm_exec_launch ==
    /\ stage = "npm"
    /\ cmd' = exec_cmd(cmd, args)
    /\ attempts' = attempts + 1
    /\ \E launched \in BOOLEAN :
          IF launched
          THEN /\ child' = spawn_child(cmd', inherited)
               /\ spawned' = spawned + 1
               /\ stage' = "running"
               /\ UNCHANGED result
          ELSE /\ result' = exec_result(FALSE, child)
               /\ stage' = "done"
               /\ UNCHANGED << child, spawned >>
    /\ Finished("exec")
    /\ UNCHANGED << args, calls >> /\ EnvUnchanged /\ FixedUnchanged

\* The shell reaches the next simple command of the list: it runs it, or
\* skips it when the operator before it says so.
Child_step ==
    /\ child.state = "running"
    /\ WellFormed(child.list)
    /\ child.next <= Len(child.list)
    /\ IF Runs(child.list, child.next, child.status)
       THEN \E failed \in BOOLEAN :
               child' = [child EXCEPT !.ran = Append(@, child.next),
                                      !.failed = IF failed THEN @ \cup {child.next} ELSE @,
                                      !.status = IF failed THEN child.next ELSE 0,
                                      !.next = @ + 1]
       ELSE child' = [child EXCEPT !.next = @ + 1]
    /\ UNCHANGED << stage, cmd, args, result, spawned, attempts, calls, lastCall, nops >>
    /\ EnvUnchanged /\ FixedUnchanged

\* The shell terminates: at the end of the list (at once when the command
\* line is empty), or at once on a malformed command line.
Child_exit ==
    /\ child.state = "running"
    /\ \/ /\ ~WellFormed(child.list)
          /\ child' = [child EXCEPT !.state = "exited", !.status = SyntaxErrorStatus]
       \/ /\ WellFormed(child.list)
          /\ child.next > Len(child.list)
          /\ child' = [child EXCEPT !.state = "exited"]
    /\ UNCHANGED << stage, cmd, args, result, spawned, attempts, calls, lastCall, nops >>
    /\ EnvUnchanged /\ FixedUnchanged

Npm_exec_return ==
    /\ stage = "running"
    /\ wait_returns(child)
    /\ result' = exec_result(TRUE, child)
    /\ stage' = "done"
    /\ UNCHANGED << cmd, args, child, spawned, attempts, calls, lastCall, nops >>
    /\ EnvUnchanged /\ FixedUnchanged

---------------------------------------------------------------------------
(* Specifications *)

\* The command builder, from Npm::default(), with hostile and plain inputs
Next ==
    \/ Npm_init(MaxFrags)
    \/ Npm_install(Options(ListsUpTo(Names, MaxPkgs)), MaxFrags)
    \/ Npm_uninstall(ListsUpTo(PlainNames, MaxPkgs), MaxFrags)
    \/ Npm_update(Options(ListsUpTo(Names, MaxPkgs)), MaxFrags)
    \/ Npm_run(Names, MaxFrags)
    \/ Npm_custom(Options(ListsUpTo(PlainNames, MaxPkgs)), MaxFrags)
    \/ Npm_exec_launch
    \/ Child_step
    \/ Child_exit
    \/ Npm_exec_return

Spec == Init /\ [][Next]_vars

\* The configurator and the builder made from it, from NpmEnv::default()
EnvNext ==
    \/ NpmEnv_with_node_env
    \/ NpmEnv_with_env
    \/ NpmEnv_with_envs
    \/ NpmEnv_clear_envs
    \/ NpmEnv_remove_env
    \/ NpmEnv_set_path
    \/ NpmEnv_clone
    \/ NpmEnv_init_env
    \/ Npm_init(MaxCalls)
    \/ Npm_install({None}, MaxCalls)
    \/ Npm_uninstall({ <<n>> : n \in PlainNames }, MaxCalls)
    \/ Npm_update({None}, MaxCalls)
    \/ Npm_run(PlainNames, MaxCalls)
    \/ Npm_custom({None}, MaxCalls)
    \/ Npm_exec_launch
    \/ Child_step
    \/ Child_exit
    \/ Npm_exec_return

EnvSpec == EnvInit /\ [][EnvNext]_vars

---------------------------------------------------------------------------
(* What the calls made so far should have appended, written from the       *)
(* documentation of the methods rather than from npm_append.               *)

Last(q) == q[Len(q)]
Front(q) == SubSeq(q, 1, Len(q) - 1)

\* Every name of the list, each preceded by a single space
RECURSIVE EachAfterSpace(_)
EachAfterSpace(list) ==
    IF list = <<>> THEN <<>> ELSE EachAfterSpace(Front(list)) \o <<" ">> \o Last(list)

NpmInstallText == <<"n", "p", "m", " ", "i", "n", "s", "t", "a", "l", "l">>
NpmUpdateText == <<"n", "p", "m", " ", "u", "p", "d", "a", "t", "e">>
NpmUninstallText == <<"n", "p", "m", " ", "u", "n", "i", "n", "s", "t", "a", "l", "l">>
NpmInitText == <<"n", "p", "m", " ", "i", "n", "i", "t", " ", "-", "y">>
NpmRunText == <<"n", "p", "m", " ", "r", "u", "n", " ">>
NpmText == <<"n", "p", "m", " ">>

GivenList(call) == IF IsSome(call.pkgs) THEN call.pkgs[1] ELSE <<>>

ExpectedFragment(call) ==
    CASE call.op = "init" -> NpmInitText
      [] call.op = "install" -> NpmInstallText \o EachAfterSpace(GivenList(call))
      [] call.op = "uninstall" -> NpmUninstallText \o EachAfterSpace(GivenList(call))
      [] call.op = "update" -> NpmUpdateText \o EachAfterSpace(GivenList(call))
      [] call.op = "run" -> NpmRunText \o call.command
      [] OTHER -> NpmText \o call.command \o EachAfterSpace(GivenList(call))

\* The fragments of the first n calls, each but the first preceded by " && "
RECURSIVE ExpectedLine(_, _)
ExpectedLine(cs, n) ==
    IF n = 0 THEN <<>>
    ELSE IF n = 1 THEN ExpectedFragment(cs[1])
    ELSE ExpectedLine(cs, n - 1) \o <<" ", "&", "&", " ">> \o ExpectedFragment(cs[n])

ExecCalled == stage \in {"running", "done"}
Launched == child.state # "none"

---------------------------------------------------------------------------
(* Claims *)

\* C1: for every sequence of append calls, the command string that exec
\* passes to the shell (the last argument of the Command, and of the child
\* when it is launched) is the fragments of those calls, in call order,
\* separated by exactly " && ": nothing before the first or after the last,
\* no fragment dropped, duplicated or reordered.
C1_JoinedInCallOrder ==
    ExecCalled =>
        /\ Last(cmd.args) = ExpectedLine(calls, Len(calls))
        /\ Launched => Last(child.argv) = ExpectedLine(calls, Len(calls))

\* C1 witness: a child launched with two different fragments, the second
\* of them with two arguments
C1_Witness ==
    /\ Launched
    /\ Len(calls) = 2
    /\ calls[1].op = "run"
    /\ calls[2].op = "install" /\ IsSome(calls[2].pkgs) /\ Len(calls[2].pkgs[1]) = 2
    /\ Len(Last(child.argv)) > Len(args[1]) + Len(args[2])

\* C4: install and update append exactly "npm install" / "npm update" when
\* the list is absent or empty (no trailing space), and otherwise that text
\* followed by every given name, in the given order, each preceded by a
\* single space.
C4_InstallUpdateFragment ==
    /\ Len(args) = Len(calls)
    /\ \A i \in 1..Len(calls) :
          /\ calls[i].op = "install" =>
                /\ GivenList(calls[i]) = <<>> => args[i] = NpmInstallText
                /\ args[i] = NpmInstallText \o EachAfterSpace(GivenList(calls[i]))
          /\ calls[i].op = "update" =>
                /\ GivenList(calls[i]) = <<>> => args[i] = NpmUpdateText
                /\ args[i] = NpmUpdateText \o EachAfterSpace(GivenList(calls[i]))

\* C4 witness: install(None), then update with a list of two different names
C4_Witness ==
    /\ Len(calls) = 2
    /\ calls[1].op = "install" /\ calls[1].pkgs = None
    /\ calls[2].op = "update" /\ IsSome(calls[2].pkgs) /\ Len(calls[2].pkgs[1]) = 2
    /\ calls[2].pkgs[1][1] # calls[2].pkgs[1][2]

\* C4 witness for the empty list: install(Some([])) appended the bare fragment
C4_EmptyListReached ==
    \E i \in 1..Len(calls) :
        calls[i].op = "install" /\ calls[i].pkgs = Some(<<>>) /\ args[i] = NpmInstallText

---------------------------------------------------------------------------
(* The shell's simple commands, fragment by fragment.  A fragment holds one *)
(* simple command more than it holds operator words; its first one is the   *)
(* npm invocation the fragment was appended for.                            *)

RECURSIVE CountOperators(_)
CountOperators(ws) ==
    IF ws = <<>> THEN 0
    ELSE (IF IsOperator(Head(ws)) THEN 1 ELSE 0) + CountOperators(Tail(ws))

NCmds(fragment) == 1 + CountOperators(Words(fragment))

RECURSIVE FirstCmd(_)
FirstCmd(k) == IF k = 1 THEN 1 ELSE FirstCmd(k - 1) + NCmds(args[k - 1])

CmdsOf(k) == FirstCmd(k) .. (FirstCmd(k) + NCmds(args[k]) - 1)

RanSet == { child.ran[i] : i \in 1..Len(child.ran) }
FragmentFailed(k) == FirstCmd(k) \in child.failed
FragmentTouched(k) == CmdsOf(k) \cap RanSet # {}
FailedFragments == { k \in 1..Len(args) : FragmentFailed(k) }
FirstFailed == CHOOSE k \in FailedFragments : \A j \in FailedFragments : k <= j
Returned == stage = "done" /\ result.kind = "ok"

\* C2: when a builder with several fragments is executed and one fragment's
\* command fails, nothing of a fragment appended after it is run, every
\* fragment appended before it has run, and exec returns the status of that
\* first failing fragment.
C2_StopsAtFirstFailure ==
    (Returned /\ Len(args) > 1 /\ FailedFragments # {}) =>
        /\ \A j \in 1..Len(args) : j > FirstFailed => ~FragmentTouched(j)
        /\ \A j \in 1..Len(args) : j < FirstFailed => FirstCmd(j) \in RanSet
        /\ result.code = FirstCmd(FirstFailed)

\* C2 for fragments that are one simple command each, with the other
\* half of the claim: without a failure every fragment runs, in append
\* order, and the status is success.
C2_PlainFragments ==
    (Returned /\ \A k \in 1..Len(args) : NCmds(args[k]) = 1) =>
        IF FailedFragments # {}
        THEN /\ child.ran = [i \in 1..FirstFailed |-> i]
             /\ result.code = FirstFailed
        ELSE /\ child.ran = [i \in 1..Len(args) |-> i]
             /\ result.code = 0

\* Two plain fragments, the first of which failed
C2_PlainFailureReached ==
    /\ Returned /\ Len(args) = 2 /\ \A k \in 1..Len(args) : NCmds(args[k]) = 1
    /\ child.failed = {1}

---------------------------------------------------------------------------
(* Claims about the configurator *)

ConfiguredEnv == Command_capture_env(cmd, inherited)

\* C5 as stated: no configuration, finalize or append call spawns a
\* process, and each exec spawns exactly one shell process and returns only
\* after it has terminated.
C5_ExecSpawnsExactlyOne ==
    /\ ~ExecCalled => (spawned = 0 /\ ~Launched)
    /\ stage = "done" => (spawned = 1 /\ child.state = "exited")

\* C5: no configuration, finalize or append call spawns a process; exec
\* asks for the shell once and spawns at most one process: exactly one when
\* the launch succeeds, none when it fails (exec then returns the error);
\* exec returns the status of a spawned process only after it terminated.
C5_SpawnOnlyInExec ==
    /\ ~ExecCalled => (spawned = 0 /\ ~Launched /\ attempts = 0)
    /\ ExecCalled => attempts = 1
    /\ spawned = (IF Launched THEN 1 ELSE 0)
    /\ stage = "running" => spawned = 1
    /\ stage = "done" => (spawned = 1 <=> result.kind = "ok")
    /\ (stage = "done" /\ spawned = 1) => child.state = "exited"

\* C5 witness: after configuration and appends, exec returned the status of
\* the one process it spawned
C5_Witness ==
    /\ stage = "done" /\ result.kind = "ok" /\ spawned = 1
    /\ child.state = "exited"
    /\ Len(args) > 0 /\ cmd.env_vars # EmptyMap

\* C6: clear_envs followed by exactly one write of a variable, and no other
\* environment operation: the child's environment is exactly that variable
\* with that value, whatever was inherited or set before the clear.
C6_ClearThenOne ==
    (Launched /\ afterClear.cleared /\ Len(afterClear.ops) = 1
              /\ afterClear.ops[1].op = "set") =>
        /\ DOMAIN child.env = {afterClear.ops[1].key}
        /\ child.env[afterClear.ops[1].key] = afterClear.ops[1].val

\* C6 witness: a variable set, the environment cleared, another variable
\* set, and the child launched from a non-empty inherited environment
C6_Witness ==
    /\ Launched /\ inherited # EmptyMap
    /\ afterClear.cleared /\ Len(afterClear.ops) = 1 /\ afterClear.ops[1].op = "set"
    /\ \E k \in EnvKeys : k # afterClear.ops[1].key /\ removedAfterSet[k] = "set"

\* In every state: a key written and then removed, and not written since, is
\* absent from the configured environment and from the child's.
C7_RemovedStaysAbsent ==
    \A k \in AllKeys : removedAfterSet[k] = "removed" =>
        /\ k \notin DOMAIN ConfiguredEnv
        /\ Launched => k \notin DOMAIN child.env

\* In every remove_env step: if the key was neither inherited nor set, the
\* configured environment is the same after the step.
C7_RemoveAbsentChangesNothing ==
    (lastCall'.op = "remove_env" /\ nops' = nops + 1
        /\ lastCall'.key \notin DOMAIN ConfiguredEnv) =>
            Command_capture_env(cmd', inherited') = ConfiguredEnv

\* C7: a key written (with_env, with_envs or with_node_env) and then removed
\* with remove_env, and not written since, is absent from the environment
\* configured for the child, inherited or not; and remove_env of a key that
\* is neither inherited nor set leaves the configured environment as it was.
C7_SetThenRemove == [](C7_RemovedStaysAbsent) /\ [][C7_RemoveAbsentChangesNothing]_vars

\* C7 witness: an inherited key written, then removed, and the child launched
C7_Witness ==
    /\ Launched
    /\ \E k \in DOMAIN inherited : removedAfterSet[k] = "removed"

\* C8: exec of a builder without fragments launches the shell with exactly
\* two arguments, the inline-execution flag and the empty string, and the
\* only error it can return is the launch error.
C8_EmptyBuilder ==
    (ExecCalled /\ calls = <<>>) =>
        /\ cmd.args = << OPT(platform), <<>> >>
        /\ cmd.program = CMD(platform)
        /\ Launched => (child.argv = << OPT(platform), <<>> >> /\ child.program = CMD(platform))
        /\ (stage = "done" /\ Launched) => (result.kind = "ok" /\ child.ran = <<>>)
        /\ attempts = 1

\* C8 witness: exec of an empty builder returned the shell's status
C8_Witness ==
    /\ stage = "done" /\ calls = <<>> /\ result.kind = "ok"
    /\ child.state = "exited" /\ Len(child.argv) = 2

\* One step of init_env or of an append call
C9_Step ==
    /\ (stage = "env" /\ stage' = "npm") => (cmd' = cmd /\ args' = <<>>)
    /\ (stage = "npm" /\ calls' # calls) =>
          /\ cmd' = cmd
          /\ Len(args') = Len(args) + 1
          /\ SubSeq(args', 1, Len(args)) = args
    /\ (stage = "npm" /\ stage' = "npm") => calls' # calls

\* C9: init_env hands the configurator's Command (shell, flag, working
\* directory, environment configuration) to the builder unchanged, with an
\* empty fragment sequence; every append call leaves that Command unchanged,
\* keeps the earlier fragments and adds exactly one fragment at the end.
C9_FrozenConfiguration == [][C9_Step]_vars

\* C9 witness: a configured environment, finalized, and two fragments appended
C9_Witness ==
    /\ stage = "npm" /\ Len(args) = 2 /\ args[1] # args[2]
    /\ cmd.env_vars # EmptyMap /\ cmd.cwd # Some(CurrentDir)

\* C10: the configurator returned by clone has the configuration of the
\* original: shell, flag, working directory, set and removed variables and
\* the cleared flag, so that its child would get the same environment.
C10_CloneKeepsConfiguration ==
    lastCall.op = "clone" =>
        /\ clone = Some(cmd)
        /\ Command_capture_env(clone[1], inherited) = ConfiguredEnv

=============================================================================
